---- MODULE Spec2Model ----
(***************************************************************************)
(* vnpy/trader/rqdata.py: the two history-data clients (RqdataClient for   *)
(* vendor 1, JqdataClient for vendor 2), their symbol translation, and the *)
(* start-up selection of the process-wide client.                          *)
(*                                                                         *)
(* Python strings whose characters the code inspects (symbols, vendor      *)
(* symbols) are sequences of one-character strings.  Credentials are       *)
(* atomic strings: the code only tests them for emptiness.  Timestamps and *)
(* timedeltas are integers counting minutes.  A Python exception leaving a *)
(* method is the result "Raise" together with the exception's class name.  *)
(***************************************************************************)
EXTENDS Integers, Sequences, FiniteSets, TLC

\* settings: SETTINGS' four credential entries
\* cls:      the class of the client object the calls are made on
\* client:   that object's attributes (username, password, inited, symbols)
\* instance: the class VtDataClient chose for the process-wide rqdata_client
\* initOk:   whether some init call on the client has returned True
\* last:     what the caller observed of the latest call
\* tr:       input and output of a stand-alone symbol translation
VARIABLES settings, cls, client, instance, initOk, last, tr

vars == <<settings, cls, client, instance, initOk, last, tr>>

----------------------------------------------------------------------------
(* Bounds of the model *)

\* longest symbol handed to the translation functions
MaxLen == 5
\* most rows in one vendor response
MaxRows == 2

----------------------------------------------------------------------------
(* str helpers *)

Digits == {"0", "1", "2", "3", "4", "5", "6", "7", "8", "9"}

\* characters symbols are drawn from: letters of both cases, the option dash, digits
Alphabet == {"T", "a", "-", "1", "8", "9"}

Symbols == UNION {[1..n -> Alphabet] : n \in 0..MaxLen}

\* str.isdigit(): non-empty and every character a digit
IsDigitStr(s) == Len(s) > 0 /\ \A i \in 1..Len(s) : s[i] \in Digits

UpperChar(c) == IF c = "a" THEN "A" ELSE c

\* str.upper()
Upper(s) == [i \in 1..Len(s) |-> UpperChar(s[i])]

IsNotDash(c) == c # "-"

\* str.replace("-", "")
StripDash(s) == SelectSeq(s, IsNotDash)

\* symbol[:n] and symbol[n:] with a 0-based n, 0 <= n <= len
Prefix(s, n) == SubSeq(s, 1, n)
Suffix(s, n) == SubSeq(s, n + 1, Len(s))

\* the value of the loop variable when `for i, word in enumerate(symbol): if
\* word.isdigit(): break` ends, for a non-empty symbol: the 0-based index of the
\* first digit, or of the last character when there is no digit
EnumerateBreak(s) ==
    IF \E i \in 1..Len(s) : s[i] \in Digits
    THEN (CHOOSE i \in 1..Len(s) : s[i] \in Digits /\ \A j \in 1..(i - 1) : s[j] \notin Digits) - 1
    ELSE Len(s) - 1

Returned(v) == [exc |-> "none", value |-> v]
Raised(e) == [exc |-> e, value |-> <<>>]

----------------------------------------------------------------------------
(* Exchange *)

EquityExchanges == {"SSE", "SZSE"}
FuturesExchanges == {"SHFE", "CFFEX", "DCE", "CZCE", "INE"}
\* SGE is in EX_VT2JQ_DICT; HKFE stands for the exchanges in none of the tables
Exchanges == EquityExchanges \cup FuturesExchanges \cup {"SGE", "HKFE"}

\* Exchange.value, as characters
ExchangeValue(e) ==
    CASE e = "SSE" -> <<"S", "S", "E">>
      [] e = "SZSE" -> <<"S", "Z", "S", "E">>
      [] e = "SHFE" -> <<"S", "H", "F", "E">>
      [] e = "CFFEX" -> <<"C", "F", "F", "E", "X">>
      [] e = "DCE" -> <<"D", "C", "E">>
      [] e = "CZCE" -> <<"C", "Z", "C", "E">>
      [] e = "INE" -> <<"I", "N", "E">>
      [] e = "SGE" -> <<"S", "G", "E">>
      [] e = "HKFE" -> <<"H", "K", "F", "E">>

\* EX_VT2JQ_DICT.get(exchange, exchange.value)
EX_VT2JQ_DICT(e) ==
    CASE e = "CFFEX" -> <<"C", "C", "F", "X">>
      [] e = "SHFE" -> <<"X", "S", "G", "E">>
      [] e = "CZCE" -> <<"X", "Z", "C", "E">>
      [] e = "DCE" -> <<"X", "D", "C", "E">>
      [] e = "INE" -> <<"X", "I", "N", "E">>
      [] e = "SSE" -> <<"X", "S", "H", "G">>
      [] e = "SZSE" -> <<"X", "S", "H", "E">>
      [] e = "SGE" -> <<"X", "S", "G", "E">>
      [] OTHER -> ExchangeValue(e)

Dot == <<".">>

----------------------------------------------------------------------------
(* Symbol translation *)

\* a wrong list: "99" forgotten
RqIndexSuffixes_No99 == {<<"8", "8">>, <<"8", "8", "8">>}

RqIndexSuffixes == {<<"8", "8">>, <<"8", "8", "8">>, <<"9", "9">>}

JqIndexSuffixes ==
    {<<"8", "8">>, <<"8", "8", "8">>, <<"8", "8", "9">>, <<"8", "8", "8", "8">>,
     <<"9", "9">>, <<"9", "9", "9">>, <<"9", "9", "9", "9">>}

\* a wrong inference: every year is taken to be in the 2020s
DecadeYear_Always2(year) == <<"2", year>>

\* year = "1" + year if year == "9" else "2" + year
DecadeYear(year) == IF year = "9" THEN <<"1", year>> ELSE <<"2", year>>

to_rq_symbol(symbol, exchange) ==
    IF exchange \in EquityExchanges
    THEN IF exchange = "SSE"
         THEN Returned(symbol \o <<".", "X", "S", "H", "G">>)
         ELSE Returned(symbol \o <<".", "X", "S", "H", "E">>)
    ELSE IF exchange \in FuturesExchanges
    THEN IF Len(symbol) = 0
         THEN Raised("UnboundLocalError")  \* count is never bound by the loop
         ELSE LET count == EnumerateBreak(symbol)
                  product == Prefix(symbol, count)
                  time_str == Suffix(symbol, count)
              IN  IF IsDigitStr(time_str)
                  THEN IF exchange # "CZCE"
                       THEN Returned(Upper(symbol))
                       ELSE IF time_str \in RqIndexSuffixes
                       THEN Returned(symbol)
                       ELSE Returned(Upper(product \o DecadeYear(symbol[count + 1])
                                           \o Suffix(symbol, count + 1)))
                  ELSE IF exchange \in {"CFFEX", "DCE", "SHFE"}
                       THEN Returned(Upper(StripDash(symbol)))
                       ELSE IF exchange = "CZCE"
                       THEN Returned(Upper(product \o DecadeYear(symbol[count + 1])
                                           \o Suffix(symbol, count + 1)))
                       ELSE Raised("UnboundLocalError")  \* rq_symbol is never bound
    ELSE Returned(symbol \o Dot \o ExchangeValue(exchange))

to_jq_symbol(symbol, exchange) ==
    LET jq_exchange == EX_VT2JQ_DICT(exchange)
    IN  IF exchange \in EquityExchanges
        THEN Returned(symbol \o Dot \o jq_exchange)
        ELSE LET idx == IF Len(symbol) = 0 THEN 0 ELSE EnumerateBreak(symbol)
                 product == Prefix(symbol, idx)
                 time_str == Suffix(symbol, idx)
             IN  IF time_str \in JqIndexSuffixes
                 THEN IF time_str[1] = "8"
                      THEN Returned(Upper(product \o <<"8", "8", "8", "8">> \o Dot \o jq_exchange))
                      ELSE Returned(Upper(product \o <<"9", "9", "9", "9">> \o Dot \o jq_exchange))
                 ELSE IF exchange = "CZCE"
                 THEN IF Len(symbol) = 0
                      THEN Raised("IndexError")  \* symbol[idx] of the empty string
                      ELSE Returned(Upper(product \o DecadeYear(symbol[idx + 1])
                                          \o Suffix(symbol, idx + 1) \o Dot \o jq_exchange))
                 ELSE Returned(Upper(symbol \o Dot \o jq_exchange))

----------------------------------------------------------------------------
(* Interval tables; timedeltas in minutes *)

\* Interval members, and NONE for HistoryRequest.interval left as None
Intervals == {"MINUTE", "HOUR", "DAILY", "WEEKLY", "NONE"}

\* INTERVAL_VT2RQ.get(interval): "" stands for the None of a missing key
INTERVAL_VT2RQ(interval) ==
    CASE interval = "MINUTE" -> "1m"
      [] interval = "HOUR" -> "60m"
      [] interval = "DAILY" -> "1d"
      [] OTHER -> ""

\* INTERVAL_VT2JQ.get(interval, None)
INTERVAL_VT2JQ(interval) ==
    CASE interval = "MINUTE" -> "1m"
      [] interval = "HOUR" -> "60m"
      [] interval = "DAILY" -> "1d"
      [] interval = "WEEKLY" -> "1w"
      [] OTHER -> ""

\* a wrong table: hour bars moved by one minute
INTERVAL_ADJUSTMENT_MAP_HourAsMinute(interval) ==
    CASE interval = "MINUTE" -> 1
      [] interval = "HOUR" -> 1
      [] interval = "DAILY" -> 0
      [] interval = "WEEKLY" -> 0

\* INTERVAL_ADJUSTMENT_MAP[interval], only looked up for the four members
INTERVAL_ADJUSTMENT_MAP(interval) ==
    CASE interval = "MINUTE" -> 1
      [] interval = "HOUR" -> 60
      [] interval = "DAILY" -> 0
      [] interval = "WEEKLY" -> 0

----------------------------------------------------------------------------
(* Values *)

\* Python None and a present value, for the symbols attribute and for the
\* vendor's DataFrame-or-None answer
None == <<>>
Some(x) == <<x>>

NoReq == [symbol |-> <<>>, exchange |-> "none", interval |-> "none"]
NoArgs == [username |-> "", password |-> ""]

\* what a caller observes of one call
Call(op, vendor, args, req, rows, result, exc, remote, fields, bars) ==
    [op |-> op, vendor |-> vendor, args |-> args, req |-> req, rows |-> rows,
     result |-> result, exc |-> exc, remote |-> remote, fields |-> fields, bars |-> bars]

NoCall == Call("none", "none", NoArgs, NoReq, <<>>, "none", "none", <<>>, {}, <<>>)

NoTr == [vendor |-> "none", symbol |-> <<>>, exchange |-> "SSE", out |-> Returned(<<>>)]

\* __init__ of either client: credentials from SETTINGS, not inited, no symbols
NewClient(username, password) ==
    [username |-> username, password |-> password, inited |-> FALSE, symbols |-> None]

\* a wrong selection: the password is not looked at
VtDataClient_UserOnly(u, p) == IF u # "" THEN "RQ" ELSE "JQ"

\* VtDataClient.__init__: which client class rqdata_client is; `u and u != ''`
\* tests twice that u is not empty
VtDataClient(u, p) == IF (u # "" /\ u # "") /\ (p # "" /\ p # "") THEN "RQ" ELSE "JQ"

----------------------------------------------------------------------------
(* init *)

\* how the vendor SDK answers the authentication and the instrument download
VendorErrors == {"RuntimeError", "AuthenticationFailed"}
\* the authentication fails, or it succeeds and the download fails or succeeds
InitOutcomes ==
    {[auth |-> e, download |-> "ok"] : e \in VendorErrors}
    \cup {[auth |-> "ok", download |-> d] : d \in VendorErrors \cup {"ok"}}

\* the try block of init: remote authentication, then the instrument download;
\* `caught` are the exception classes of the except clause
InitRemote(self, outcome, universe, caught) ==
    LET err == IF outcome.auth # "ok" THEN outcome.auth ELSE outcome.download
        remote == IF outcome.auth # "ok" THEN <<"auth">> ELSE <<"auth", "all_instruments">>
    IN  IF err = "ok"
        THEN [self |-> [self EXCEPT !.symbols = Some(universe), !.inited = TRUE],
              result |-> "True", exc |-> "none", remote |-> remote]
        ELSE IF err \in caught
        THEN [self |-> self, result |-> "False", exc |-> "none", remote |-> remote]
        ELSE [self |-> self, result |-> "Raise", exc |-> err, remote |-> remote]

\* a wrong init: the `if self.inited: return True` guard is missing
ClientInit_NoGuard(self, username, password, outcome, universe, caught) ==
    LET s1 == IF username # "" /\ password # ""
              THEN [self EXCEPT !.username = username, !.password = password]
              ELSE self
    IN  IF s1.username = "" \/ s1.password = ""
        THEN [self |-> s1, result |-> "False", exc |-> "none", remote |-> <<>>]
        ELSE InitRemote(s1, outcome, universe, caught)

\* the part of init both classes share line for line
ClientInit(self, username, password, outcome, universe, caught) ==
    IF self.inited
    THEN [self |-> self, result |-> "True", exc |-> "none", remote |-> <<>>]
    ELSE LET s1 == IF username # "" /\ password # ""
                   THEN [self EXCEPT !.username = username, !.password = password]
                   ELSE self
         IN  IF s1.username = "" \/ s1.password = ""
             THEN [self |-> s1, result |-> "False", exc |-> "none", remote |-> <<>>]
             ELSE InitRemote(s1, outcome, universe, caught)

RqdataClient_init(self, username, password, outcome, universe) ==
    ClientInit(self, username, password, outcome, universe,
               {"RuntimeError", "AuthenticationFailed"})

JqdataClient_init(self, username, password, outcome, universe) ==
    ClientInit(self, username, password, outcome, universe, {"RuntimeError"})

----------------------------------------------------------------------------
(* query_history *)

BaseFields == {"open", "high", "low", "close", "volume"}

\* a wrong field list: open interest is always requested
QueryFields_Always(symbol) == BaseFields \cup {"open_interest"}

\* fields = [...]; if not symbol.isdigit(): fields.append("open_interest")
QueryFields(symbol) ==
    IF ~IsDigitStr(symbol) THEN BaseFields \cup {"open_interest"} ELSE BaseFields

\* row.get("open_interest", 0) on a row of a frame holding the requested fields
RowOpenInterest(row, fields) ==
    IF "open_interest" \in fields THEN row.open_interest ELSE 0

\* BarData(...) for one row
MakeBar(req, row, fields, gateway) ==
    [symbol |-> req.symbol, exchange |-> req.exchange, interval |-> req.interval,
     datetime |-> row.name - INTERVAL_ADJUSTMENT_MAP(req.interval),
     open_interest |-> RowOpenInterest(row, fields), gateway_name |-> gateway]

\* one bar per row of df.iterrows(), in row order
MakeBars(req, rows, fields, gateway) ==
    [i \in 1..Len(rows) |-> MakeBar(req, rows[i], fields, gateway)]

Reject(result, exc) ==
    [result |-> result, exc |-> exc, remote |-> <<>>, fields |-> {}, bars |-> <<>>]

\* In both handlers req.start and req.end only shape the date range handed to
\* the vendor (end + 1 day for vendor 1, end capped at now and the weekly bar
\* count for vendor 2); the vendor's answer df is drawn freely, so the range is
\* not carried in the state.

RqdataClient_query_history(self, req, df) ==
    IF self.symbols = None
    THEN Reject("None", "none")
    ELSE LET rq_symbol == to_rq_symbol(req.symbol, req.exchange)
         IN  IF rq_symbol.exc # "none"
             THEN Reject("Raise", rq_symbol.exc)
             ELSE IF rq_symbol.value \notin self.symbols[1]
             THEN Reject("None", "none")
             ELSE IF INTERVAL_VT2RQ(req.interval) = ""
             THEN Reject("None", "none")
             ELSE LET fields == QueryFields(req.symbol)
                  IN  [result |-> "Bars", exc |-> "none", remote |-> <<"get_price">>,
                       fields |-> fields,
                       bars |-> IF df # None THEN MakeBars(req, df[1], fields, "RQ") ELSE <<>>]

JqdataClient_query_history(self, req, df) ==
    LET jq_symbol == to_jq_symbol(req.symbol, req.exchange)
    IN  IF jq_symbol.exc # "none"
        THEN Reject("Raise", jq_symbol.exc)
        ELSE IF self.symbols = None
        THEN Reject("Raise", "TypeError")  \* `jq_symbol not in None`
        ELSE IF jq_symbol.value \notin self.symbols[1]
        THEN Reject("None", "none")
        ELSE IF INTERVAL_VT2JQ(req.interval) = ""
        THEN Reject("None", "none")
        ELSE LET fields == QueryFields(req.symbol)
             IN  IF INTERVAL_VT2JQ(req.interval) # "1w"
                 THEN [result |-> "Bars", exc |-> "none", remote |-> <<"get_price">>,
                       fields |-> fields,
                       bars |-> IF df = None THEN <<>> ELSE MakeBars(req, df[1], fields, "JQ")]
                 ELSE IF df = None
                 THEN [result |-> "Raise", exc |-> "AttributeError", remote |-> <<"get_bars">>,
                       fields |-> fields \cup {"date"}, bars |-> <<>>]  \* None.set_index
                 ELSE [result |-> "Bars", exc |-> "none", remote |-> <<"get_bars">>,
                       fields |-> fields \cup {"date"},
                       bars |-> MakeBars(req, df[1], fields \cup {"date"}, "JQ")]

----------------------------------------------------------------------------
(* Inputs *)

SettingNames == {"", "u"}
SettingPasswords == {"", "p"}
\* jqdata.username and jqdata.password: unset or set
JqSettings == {<<"", "">>, <<"u", "p">>}

\* (username, password) arguments of init: the defaults, a full pair, half a pair
InitArgs == {[username |-> "", password |-> ""], [username |-> "v", password |-> "w"],
             [username |-> "v", password |-> ""]}

\* instrument universes the vendors may serve
RqUniverses == {{<<"A", "1", "9", "1", "1">>, <<"1", "1", ".", "X", "S", "H", "G">>},
                {<<"A", "1", "9", "1", "1">>}}
JqUniverses == {{<<"A", "1", "9", "1", "1", ".", "X", "Z", "C", "E">>,
                 <<"1", "1", ".", "X", "S", "H", "G">>},
                {<<"A", "1", "9", "1", "1", ".", "X", "Z", "C", "E">>}}

\* a CZCE future, an equity code, an option-style symbol, the empty symbol
ReqSymbols == {<<"a", "9", "1", "1">>, <<"1", "1">>, <<"a", "-", "1">>, <<>>}
ReqExchanges == {"CZCE", "SSE", "INE"}
Requests == [symbol : ReqSymbols, exchange : ReqExchanges, interval : Intervals]

\* vendor rows: the row's timestamp (row.name) and the open interest it reports
Timestamps == {600, 660}
VendorRows == [name : Timestamps, open_interest : {5}]
Frames == UNION {[1..n -> VendorRows] : n \in 0..MaxRows}
\* the vendor answers with None or with a frame
Responses == {None} \cup {Some(f) : f \in Frames}

\* the universe is drawn only when the download succeeds
UniversesFor(o, universes) ==
    IF o.auth = "ok" /\ o.download = "ok" THEN universes ELSE {{}}

\* the answer is drawn only when the handler issues the remote query
ResponsesFor(probe) == IF probe.remote = <<>> THEN {None} ELSE Responses
RowsOf(df) == IF df = None THEN <<>> ELSE df[1]

---------------------------------------------------------------------------------------------------------------------------------------------------
(* The state machine.  The calls are made on one client object: the        *)
(* process-wide rqdata_client when cls = instance, otherwise an object of  *)
(* the other class constructed directly.                                   *)

Init ==
    /\ settings \in {[rqUser |-> ru, rqPass |-> rp, jqUser |-> j[1], jqPass |-> j[2]] :
                         ru \in SettingNames, rp \in SettingPasswords, j \in JqSettings}
    /\ cls \in {"RQ", "JQ"}
    /\ client = IF cls = "RQ" THEN NewClient(settings.rqUser, settings.rqPass)
                              ELSE NewClient(settings.jqUser, settings.jqPass)
    /\ instance = VtDataClient(settings.rqUser, settings.rqPass)
    /\ initOk = FALSE
    /\ last = NoCall
    /\ tr = NoTr

RqInit ==
    /\ cls = "RQ"
    /\ \E a \in InitArgs, o \in InitOutcomes : \E u \in UniversesFor(o, RqUniverses) :
        LET r == RqdataClient_init(client, a.username, a.password, o, u)
        IN  /\ client' = r.self
            /\ initOk' = (initOk \/ r.result = "True")
            /\ last' = Call("init", "RQ", a, NoReq, <<>>, r.result, r.exc, r.remote, {}, <<>>)
            /\ UNCHANGED <<settings, cls, instance, tr>>

JqInit ==
    /\ cls = "JQ"
    /\ \E a \in InitArgs, o \in InitOutcomes : \E u \in UniversesFor(o, JqUniverses) :
        LET r == JqdataClient_init(client, a.username, a.password, o, u)
        IN  /\ client' = r.self
            /\ initOk' = (initOk \/ r.result = "True")
            /\ last' = Call("init", "JQ", a, NoReq, <<>>, r.result, r.exc, r.remote, {}, <<>>)
            /\ UNCHANGED <<settings, cls, instance, tr>>

RqQueryHistory ==
    /\ cls = "RQ"
    /\ \E req \in Requests :
        \E df \in ResponsesFor(RqdataClient_query_history(client, req, None)) :
            LET r == RqdataClient_query_history(client, req, df)
            IN  /\ last' = Call("query", "RQ", NoArgs, req, RowsOf(df),
                                r.result, r.exc, r.remote, r.fields, r.bars)
                /\ UNCHANGED <<settings, cls, client, instance, initOk, tr>>

JqQueryHistory ==
    /\ cls = "JQ"
    /\ \E req \in Requests :
        \E df \in ResponsesFor(JqdataClient_query_history(client, req, None)) :
            LET r == JqdataClient_query_history(client, req, df)
            IN  /\ last' = Call("query", "JQ", NoArgs, req, RowsOf(df),
                                r.result, r.exc, r.remote, r.fields, r.bars)
                /\ UNCHANGED <<settings, cls, client, instance, initOk, tr>>

Next == RqInit \/ JqInit \/ RqQueryHistory \/ JqQueryHistory

Spec == Init /\ [][Next]_vars

----------------------------------------------------------------------------
(* Symbol translation on its own: the inputs are drawn first, then either  *)
(* vendor's translation is applied to them                                 *)

InitTr ==
    /\ settings = [rqUser |-> "", rqPass |-> "", jqUser |-> "", jqPass |-> ""]
    /\ cls = "JQ"
    /\ client = NewClient("", "")
    /\ instance = VtDataClient("", "")
    /\ initOk = FALSE
    /\ last = NoCall
    /\ tr \in [vendor : {"none"}, symbol : Symbols, exchange : Exchanges,
               out : {Returned(<<>>)}]

ToRqSymbol ==
    /\ tr.vendor = "none"
    /\ tr' = [tr EXCEPT !.vendor = "RQ", !.out = to_rq_symbol(tr.symbol, tr.exchange)]
    /\ UNCHANGED <<settings, cls, client, instance, initOk, last>>

ToJqSymbol ==
    /\ tr.vendor = "none"
    /\ tr' = [tr EXCEPT !.vendor = "JQ", !.out = to_jq_symbol(tr.symbol, tr.exchange)]
    /\ UNCHANGED <<settings, cls, client, instance, initOk, last>>

NextTr == ToRqSymbol \/ ToJqSymbol

SpecTr == InitTr /\ [][NextTr]_vars

----------------------------------------------------------------------------
(* Properties of init *)

\* C1: once some init call on the client has returned True, every later init
\* call, whatever its arguments and whatever the vendor would answer, returns
\* True, makes no remote call and leaves username, password, inited and
\* symbols as they were.
C1_InitIdempotent ==
    [][(initOk /\ last'.op = "init")
          => (last'.result = "True" /\ last'.remote = <<>> /\ client' = client)]_vars

\* an init with other credentials after a successful one: True, nothing remote,
\* the cached credentials are still the old ones
C1_Witness ==
    /\ initOk
    /\ last.op = "init"
    /\ last.args = [username |-> "v", password |-> "w"]
    /\ last.result = "True"
    /\ last.remote = <<>>
    /\ client.username = "u"
    /\ client.symbols # None

\* C2: an init call that does not initialize the client returns False (it
\* does not raise) and leaves the symbol cache unset; when the cached
\* username or password is empty it makes no remote call.  The client is left
\* uninitialized exactly in the two failure cases: empty credentials, or an
\* error of the vendor's authentication or download.
C2_InitFailsQuietly ==
    (last.op = "init" /\ ~client.inited)
        => /\ last.result = "False"
           /\ last.exc = "none"
           /\ client.symbols = None
           /\ (client.username = "" \/ client.password = "") => last.remote = <<>>

----------------------------------------------------------------------------
(* Properties of query_history *)

\* the vendor symbol the client of class c looks up, as a translation result
VendorSymbol(c, req) ==
    IF c = "RQ" THEN to_rq_symbol(req.symbol, req.exchange)
                ELSE to_jq_symbol(req.symbol, req.exchange)

\* the translated symbol exists and is not in the cache
UnknownSymbol(c, req) ==
    /\ VendorSymbol(c, req).exc = "none"
    /\ VendorSymbol(c, req).value \notin client.symbols[1]

\* the interval has no vendor interval code
NoIntervalCode(c, interval) ==
    IF c = "RQ" THEN interval \notin {"MINUTE", "HOUR", "DAILY"}
                ELSE interval \notin {"MINUTE", "HOUR", "DAILY", "WEEKLY"}

\* C3: on an initialized client a query whose translated symbol is not cached,
\* or whose interval has no vendor code, returns None without a remote query
\* and without raising; a remote query is issued only when the symbol is
\* cached and the interval has a code.
C3_QueryRejects ==
    (last.op = "query" /\ client.inited)
        => /\ (UnknownSymbol(cls, last.req) \/ NoIntervalCode(cls, last.req.interval))
                => (last.result = "None" /\ last.exc = "none" /\ last.remote = <<>>)
           /\ last.remote # <<>>
                => (~UnknownSymbol(cls, last.req) /\ ~NoIntervalCode(cls, last.req.interval))

\* minutes subtracted per interval, as the claim states them
StatedAdjustment(interval) ==
    IF interval = "MINUTE" THEN 1 ELSE IF interval = "HOUR" THEN 60 ELSE 0

\* C6: the bars returned are as many as the vendor's rows and in their order,
\* and each bar's datetime is its row's timestamp minus one minute (MINUTE),
\* one hour (HOUR) or nothing (DAILY, WEEKLY).
C6_TimestampAdjustment ==
    (last.op = "query" /\ last.result = "Bars")
        => /\ Len(last.bars) = Len(last.rows)
           /\ \A i \in 1..Len(last.bars) :
                  last.bars[i].datetime
                      = last.rows[i].name - StatedAdjustment(last.req.interval)

\* two hour rows, the later one first, give two bars one hour earlier, in the
\* same order
C6_Witness ==
    /\ last.op = "query"
    /\ last.result = "Bars"
    /\ last.req.interval = "HOUR"
    /\ Len(last.rows) = 2
    /\ last.rows[1].name = 660
    /\ last.rows[2].name = 600
    /\ last.bars[1].datetime = 600
    /\ last.bars[2].datetime = 540

\* C8: whenever the remote price query is issued, open_interest is among the
\* requested fields exactly when the symbol is not purely numeric, and for a
\* purely numeric symbol every bar has open interest 0.
C8_OpenInterest ==
    (last.op = "query" /\ last.remote # <<>>)
        => /\ ("open_interest" \in last.fields) <=> ~IsDigitStr(last.req.symbol)
           /\ IsDigitStr(last.req.symbol)
                => \A i \in 1..Len(last.bars) : last.bars[i].open_interest = 0

\* an equity code: the vendor's rows report open interest 5, it was not
\* requested, and both bars carry 0
C8_Witness ==
    /\ last.op = "query"
    /\ last.result = "Bars"
    /\ last.req.symbol = <<"1", "1">>
    /\ "open_interest" \notin last.fields
    /\ Len(last.bars) = 2
    /\ last.rows[1].open_interest = 5
    /\ last.bars[1].open_interest = 0
    /\ last.bars[2].open_interest = 0

\* C9: a query on a client no init call of which has returned True returns
\* None, issues no remote query and does not raise.
C9_QueryBeforeInit ==
    (last.op = "query" /\ ~initOk)
        => (last.result = "None" /\ last.exc = "none" /\ last.remote = <<>>)

----------------------------------------------------------------------------
(* Client selection *)

\* C7: the process-wide client is of the vendor-1 class exactly when the
\* configured vendor-1 username and password are both non-empty, at start-up
\* and after every sequence of init and query_history calls.
C7_SelectionFixed ==
    instance = IF settings.rqUser # "" /\ settings.rqPass # "" THEN "RQ" ELSE "JQ"

\* only the vendor-1 username is configured, so vendor 2 was selected; an init
\* with other credentials has succeeded and the selection stands
C7_Witness ==
    /\ settings.rqUser = "u"
    /\ settings.rqPass = ""
    /\ instance = "JQ"
    /\ last.op = "init"
    /\ last.args = [username |-> "v", password |-> "w"]
    /\ last.result = "True"

----------------------------------------------------------------------------
(* Properties of the symbol translation *)

Letters == {"T", "a"}

\* s without its last n characters, and its last n characters
DropLast(s, n) == SubSeq(s, 1, Len(s) - n)
TakeLast(s, n) == SubSeq(s, Len(s) - n + 1, Len(s))

\* product letters, one year digit, two month digits
IsContractSymbol(s) ==
    /\ Len(s) >= 3
    /\ \A i \in 1..Len(s) : IF i <= Len(s) - 3 THEN s[i] \in Letters ELSE s[i] \in Digits

\* the three-digit tails each vendor's translation treats as an index suffix
IndexTail3(vendor) ==
    IF vendor = "RQ" THEN {<<"8", "8", "8">>}
    ELSE {<<"8", "8", "8">>, <<"8", "8", "9">>, <<"9", "9", "9">>}

StatedDecade(y) == IF y = "9" THEN "1" ELSE "2"

StatedIndexSuffixes ==
    {<<"8", "8">>, <<"8", "8", "8">>, <<"9", "9">>, <<"9", "9", "9", "9">>}

\* s is a digit-free product followed by the digit tail t
HasTail(s, t) ==
    /\ Len(s) >= Len(t)
    /\ TakeLast(s, Len(t)) = t
    /\ \A i \in 1..(Len(s) - Len(t)) : s[i] \notin Digits

IndexToken(t) == IF t[1] = "8" THEN <<"8", "8", "8", "8">> ELSE <<"9", "9", "9", "9">>

C10_TranslationTotal ==
    tr.vendor # "none" => tr.out.exc = "none"

====
